---- MODULE Spec2Model ----
(***************************************************************************)
(* A model of src/linkedDeque.js: the Deque built on a doubly linked list  *)
(* of Node records.  Node references are node identifiers, Null is the     *)
(* JavaScript null (both as a reference and as an element value).          *)
(***************************************************************************)
EXTENDS Integers, Sequences, FiniteSets, TLC

\* Bounds of the model.
MaxLen == 5
MaxVal == 2
MaxInit == 1
MaxCopyLen == 2

Null == 0
NumNodes == MaxLen + 2
NodeIds == 1..NumNodes
Values == 0..MaxVal
Indexes == (-1)..(MaxLen + 1)
StepRange == (-(MaxLen + 2))..(MaxLen + 2)

VARIABLES nodes, head, tail, length, last, trip, copied

vars == <<nodes, head, tail, length, last, trip, copied>>

\* function Node(value=null)
Node(value) == [val |-> value, prev |-> Null, next |-> Null]

\* The Deque object whose fields are the variables.
Self == [nodes |-> nodes, head |-> head, tail |-> tail, length |-> length]

\* What a call hands back: a value, a boolean, an array, or a thrown error.
Ret(status, val) == [status |-> status, val |-> val, flag |-> FALSE, arr |-> <<>>]

\* The nodes along next from n, each once.
RECURSIVE NextChain(_, _, _)
NextChain(h, n, seen) ==
    IF n = Null \/ (\E i \in 1..Len(seen) : seen[i] = n) THEN seen
    ELSE NextChain(h, h[n].next, Append(seen, n))

\* The nodes along prev from n, each once.
RECURSIVE PrevChain(_, _, _)
PrevChain(h, n, seen) ==
    IF n = Null \/ (\E i \in 1..Len(seen) : seen[i] = n) THEN seen
    ELSE PrevChain(h, h[n].prev, Append(seen, n))

\* Every node that can be got to from the nodes of S.
RECURSIVE Closure(_, _)
Closure(h, S) ==
    LET T == (S \cup {h[n].next : n \in S} \cup {h[n].prev : n \in S}) \ {Null}
    IN  IF T = S THEN S ELSE Closure(h, T)

\* The nodes the deque can still get to, the chain from head first.
Live(d) ==
    LET chain == NextChain(d.nodes, d.head, <<>>)
        onChain == {chain[i] : i \in 1..Len(chain)}
        others == Closure(d.nodes, onChain \cup ({d.tail} \ {Null})) \ onChain
    IN  IF others = {} THEN chain
        ELSE chain \o [i \in 1..Cardinality(others) |->
                         CHOOSE n \in others : Cardinality({m \in others : m < n}) = i - 1]

\* new Node(...): the first node identifier that nothing refers to.
NewNode(d) ==
    LET live == Live(d)
    IN  CHOOSE n \in NodeIds :
            /\ \A i \in 1..Len(live) : live[i] # n
            /\ \A m \in 1..(n - 1) : \E i \in 1..Len(live) : live[i] = m

\* Node identifiers are names only, and a program cannot observe them: between
\* calls the nodes the deque cannot get to are given back, and the live ones
\* are named in the order of the chain from head.
Renamed(d, live) ==
    LET name == [n \in 0..NumNodes |->
                   IF n # Null /\ \E i \in 1..Len(live) : live[i] = n
                   THEN CHOOSE i \in 1..Len(live) : live[i] = n
                   ELSE Null]
    IN  [nodes |-> [i \in NodeIds |->
                      IF i <= Len(live)
                      THEN [val |-> d.nodes[live[i]].val,
                            prev |-> name[d.nodes[live[i]].prev],
                            next |-> name[d.nodes[live[i]].next]]
                      ELSE Node(Null)],
         head |-> name[d.head],
         tail |-> name[d.tail],
         length |-> d.length]

Reclaim(d) == Renamed(d, Live(d))

\* A Deque object with its fields c, its nodes in the heap h.
Held(h, c) == [nodes |-> h, head |-> c.head, tail |-> c.tail, length |-> c.length]

\* Two Deque objects in one heap, renamed: the live nodes of the first are
\* named from 1 up in the order of its chain, the live nodes of the second
\* that are not nodes of the first from NumNodes down, and every other node is
\* given back. The first identifier that the first deque does not refer to is
\* then one that nothing in the heap refers to, as new Node() asks.
Both(first, second) ==
    LET liveF == Live(first)
        inF(n) == \E i \in 1..Len(liveF) : liveF[i] = n
        liveS == SelectSeq(Live(second), LAMBDA n : ~inF(n))
        inS(n) == \E i \in 1..Len(liveS) : liveS[i] = n
        name == [n \in 0..NumNodes |->
                   IF n = Null THEN Null
                   ELSE IF inF(n) THEN CHOOSE i \in 1..Len(liveF) : liveF[i] = n
                   ELSE IF inS(n)
                   THEN NumNodes + 1 - (CHOOSE i \in 1..Len(liveS) : liveS[i] = n)
                   ELSE Null]
        cell(n) == [val |-> first.nodes[n].val,
                    prev |-> name[first.nodes[n].prev],
                    next |-> name[first.nodes[n].next]]
    IN  [nodes |-> [i \in NodeIds |->
                      IF i <= Len(liveF) THEN cell(liveF[i])
                      ELSE IF i > NumNodes - Len(liveS) THEN cell(liveS[NumNodes + 1 - i])
                      ELSE Node(Null)],
         first |-> [head |-> name[first.head], tail |-> name[first.tail],
                    length |-> first.length],
         second |-> [head |-> name[second.head], tail |-> name[second.tail],
                     length |-> second.length]]

\* function Deque(iterable), before the elements are pushed
EmptyDeque ==
    [nodes |-> [n \in NodeIds |-> Node(Null)], head |-> 1, tail |-> 1, length |-> 0]

\* push without this.tail = newNode.
push_keepsTail(d, value) ==
    IF d.length = 0
    THEN [d EXCEPT !.nodes[d.tail].val = value, !.length = d.length + 1]
    ELSE LET newNode == NewNode(d)
         IN  [d EXCEPT !.nodes[newNode] = [val |-> value, prev |-> d.tail, next |-> Null],
                       !.nodes[d.tail].next = newNode,
                       !.length = d.length + 1]

\* Deque.prototype.push
push(d, value) ==
    IF d.length = 0
    THEN [d EXCEPT !.nodes[d.tail].val = value, !.length = d.length + 1]
    ELSE LET newNode == NewNode(d)
         IN  [d EXCEPT !.nodes[newNode] = [val |-> value, prev |-> d.tail, next |-> Null],
                       !.nodes[d.tail].next = newNode,
                       !.tail = newNode,
                       !.length = d.length + 1]

\* pushLeft without this.head = newNode.
pushLeft_keepsHead(d, value) ==
    IF d.length = 0
    THEN [d EXCEPT !.nodes[d.head].val = value, !.length = d.length + 1]
    ELSE LET newNode == NewNode(d)
         IN  [d EXCEPT !.nodes[newNode] = [val |-> value, prev |-> Null, next |-> d.head],
                       !.nodes[d.head].prev = newNode,
                       !.length = d.length + 1]

\* Deque.prototype.pushLeft
pushLeft(d, value) ==
    IF d.length = 0
    THEN [d EXCEPT !.nodes[d.head].val = value, !.length = d.length + 1]
    ELSE LET newNode == NewNode(d)
         IN  [d EXCEPT !.nodes[newNode] = [val |-> value, prev |-> Null, next |-> d.head],
                       !.nodes[d.head].prev = newNode,
                       !.head = newNode,
                       !.length = d.length + 1]

\* Deque.prototype.getHead
getHead(d) == Ret("ok", d.nodes[d.head].val)

\* Deque.prototype.getTail
getTail(d) == Ret("ok", d.nodes[d.tail].val)

\* pop that leaves the value in the node when the last element goes.
pop_keepsValue(d) ==
    IF d.length = 0 THEN [d |-> d, ret |-> Ret("ok", Null)]
    ELSE IF d.length = 1
    THEN [d |-> [d EXCEPT !.length = d.length - 1],
          ret |-> Ret("ok", d.nodes[d.head].val)]
    ELSE LET lastElement == d.tail
             newTail == d.nodes[d.tail].prev
         IN  [d |-> [d EXCEPT !.tail = newTail,
                              !.nodes[newTail].next = Null,
                              !.length = d.length - 1],
              ret |-> Ret("ok", d.nodes[lastElement].val)]

\* Deque.prototype.pop
pop(d) ==
    IF d.length = 0 THEN [d |-> d, ret |-> Ret("ok", Null)]
    ELSE IF d.length = 1
    THEN [d |-> [d EXCEPT !.nodes[d.head].val = Null, !.length = d.length - 1],
          ret |-> Ret("ok", d.nodes[d.head].val)]
    ELSE LET lastElement == d.tail
             newTail == d.nodes[d.tail].prev
         IN  [d |-> [d EXCEPT !.tail = newTail,
                              !.nodes[newTail].next = Null,
                              !.length = d.length - 1],
              ret |-> Ret("ok", d.nodes[lastElement].val)]

\* popleft that does not clear the new head's prev.
popleft_keepsPrev(d) ==
    IF d.length = 0 THEN [d |-> d, ret |-> Ret("ok", Null)]
    ELSE IF d.length = 1
    THEN [d |-> [d EXCEPT !.nodes[d.head].val = Null, !.length = d.length - 1],
          ret |-> Ret("ok", d.nodes[d.head].val)]
    ELSE LET firstElement == d.head
             newHead == d.nodes[d.head].next
         IN  [d |-> [d EXCEPT !.head = newHead,
                              !.length = d.length - 1],
              ret |-> Ret("ok", d.nodes[firstElement].val)]

\* popleft without the test for length 0, the last element being length <= 1.
popleft_noEmptyGuard(d) ==
    IF d.length <= 1
    THEN [d |-> [d EXCEPT !.nodes[d.head].val = Null, !.length = d.length - 1],
          ret |-> Ret("ok", d.nodes[d.head].val)]
    ELSE LET firstElement == d.head
             newHead == d.nodes[d.head].next
         IN  [d |-> [d EXCEPT !.head = newHead,
                              !.nodes[newHead].prev = Null,
                              !.length = d.length - 1],
              ret |-> Ret("ok", d.nodes[firstElement].val)]

\* Deque.prototype.popleft
popleft(d) ==
    IF d.length = 0 THEN [d |-> d, ret |-> Ret("ok", Null)]
    ELSE IF d.length = 1
    THEN [d |-> [d EXCEPT !.nodes[d.head].val = Null, !.length = d.length - 1],
          ret |-> Ret("ok", d.nodes[d.head].val)]
    ELSE LET firstElement == d.head
             newHead == d.nodes[d.head].next
         IN  [d |-> [d EXCEPT !.head = newHead,
                              !.nodes[newHead].prev = Null,
                              !.length = d.length - 1],
              ret |-> Ret("ok", d.nodes[firstElement].val)]

\* Deque.prototype.at: the scan loop
RECURSIVE atLoop(_, _, _, _, _)
atLoop(d, current, currentIndex, index, pastMid) ==
    IF current = Null THEN Ret("undefined", Null)
    ELSE IF currentIndex = index THEN Ret("ok", d.nodes[current].val)
    ELSE atLoop(d,
                IF pastMid THEN d.nodes[current].prev ELSE d.nodes[current].next,
                currentIndex + (IF pastMid THEN -1 ELSE 1),
                index, pastMid)

\* at starting its backward scan with currentIndex = length.
at_startsPastTail(d, index) ==
    IF index >= d.length \/ index < 0 THEN Ret("RangeError", Null)
    ELSE LET pastMid == index > (d.length \div 2)
         IN  atLoop(d,
                    IF pastMid THEN d.tail ELSE d.head,
                    IF pastMid THEN d.length ELSE 0,
                    index, pastMid)

\* Deque.prototype.at
at(d, index) ==
    IF index >= d.length \/ index < 0 THEN Ret("RangeError", Null)
    ELSE LET pastMid == index > (d.length \div 2)
         IN  atLoop(d,
                    IF pastMid THEN d.tail ELSE d.head,
                    IF pastMid THEN d.length - 1 ELSE 0,
                    index, pastMid)

\* Deque.prototype.at: the number of times the scan loop goes on to
\* current.prev or current.next before it returns
RECURSIVE atLinksLoop(_, _, _, _, _, _)
atLinksLoop(d, current, currentIndex, index, pastMid, links) ==
    IF current = Null THEN links
    ELSE IF currentIndex = index THEN links
    ELSE atLinksLoop(d,
                     IF pastMid THEN d.nodes[current].prev ELSE d.nodes[current].next,
                     currentIndex + (IF pastMid THEN -1 ELSE 1),
                     index, pastMid, links + 1)

\* Deque.prototype.at: the links followed by at(index)
atLinks(d, index) ==
    IF index >= d.length \/ index < 0 THEN 0
    ELSE LET pastMid == index > (d.length \div 2)
         IN  atLinksLoop(d,
                         IF pastMid THEN d.tail ELSE d.head,
                         IF pastMid THEN d.length - 1 ELSE 0,
                         index, pastMid, 0)

\* Deque.prototype.at of the forward-only variant: the scan loop
RECURSIVE atForwardLoop(_, _, _, _)
atForwardLoop(d, current, currentIndex, index) ==
    IF current = Null THEN Ret("undefined", Null)
    ELSE IF currentIndex = index THEN Ret("ok", d.nodes[current].val)
    ELSE atForwardLoop(d, d.nodes[current].next, currentIndex + 1, index)

\* Deque.prototype.at of the forward-only variant, which returns null for an
\* index out of range
atForward(d, index) ==
    IF index >= d.length \/ index < 0 THEN Ret("null", Null)
    ELSE atForwardLoop(d, d.head, 0, index)

\* insertAt's splice without current.prev = newNode.
RECURSIVE insertAtLoop_noBackLink(_, _, _, _, _, _)
insertAtLoop_noBackLink(d, value, current, currentIndex, index, pastMid) ==
    IF current = Null THEN [d |-> d, ret |-> [Ret("ok", Null) EXCEPT !.flag = FALSE]]
    ELSE IF currentIndex # index
    THEN insertAtLoop_noBackLink(d, value,
                      IF pastMid THEN d.nodes[current].prev ELSE d.nodes[current].next,
                      currentIndex + (IF pastMid THEN -1 ELSE 1),
                      index, pastMid)
    ELSE LET newNode == NewNode(d)
             prev == d.nodes[current].prev
         IN  IF prev = Null
             THEN [d |-> d, ret |-> Ret("TypeError", Null)]
             ELSE [d |-> [d EXCEPT !.nodes[newNode] = [val |-> value, prev |-> prev, next |-> current],
                                   !.nodes[prev].next = newNode,
                                   !.length = d.length + 1],
                   ret |-> [Ret("ok", Null) EXCEPT !.flag = TRUE]]

\* insertAt's splice without this._length += 1.
RECURSIVE insertAtLoop_keepsLength(_, _, _, _, _, _)
insertAtLoop_keepsLength(d, value, current, currentIndex, index, pastMid) ==
    IF current = Null THEN [d |-> d, ret |-> [Ret("ok", Null) EXCEPT !.flag = FALSE]]
    ELSE IF currentIndex # index
    THEN insertAtLoop_keepsLength(d, value,
                      IF pastMid THEN d.nodes[current].prev ELSE d.nodes[current].next,
                      currentIndex + (IF pastMid THEN -1 ELSE 1),
                      index, pastMid)
    ELSE LET newNode == NewNode(d)
             prev == d.nodes[current].prev
         IN  IF prev = Null
             THEN [d |-> d, ret |-> Ret("TypeError", Null)]
             ELSE [d |-> [d EXCEPT !.nodes[newNode] = [val |-> value, prev |-> prev, next |-> current],
                                   !.nodes[prev].next = newNode,
                                   !.nodes[current].prev = newNode],
                   ret |-> [Ret("ok", Null) EXCEPT !.flag = TRUE]]

\* Deque.prototype.insertAt: the scan loop and the splice
RECURSIVE insertAtLoop(_, _, _, _, _, _)
insertAtLoop(d, value, current, currentIndex, index, pastMid) ==
    IF current = Null THEN [d |-> d, ret |-> [Ret("ok", Null) EXCEPT !.flag = FALSE]]
    ELSE IF currentIndex # index
    THEN insertAtLoop(d, value,
                      IF pastMid THEN d.nodes[current].prev ELSE d.nodes[current].next,
                      currentIndex + (IF pastMid THEN -1 ELSE 1),
                      index, pastMid)
    ELSE LET newNode == NewNode(d)
             prev == d.nodes[current].prev
         IN  IF prev = Null
             THEN [d |-> d, ret |-> Ret("TypeError", Null)]
             ELSE [d |-> [d EXCEPT !.nodes[newNode] = [val |-> value, prev |-> prev, next |-> current],
                                   !.nodes[prev].next = newNode,
                                   !.nodes[current].prev = newNode,
                                   !.length = d.length + 1],
                   ret |-> [Ret("ok", Null) EXCEPT !.flag = TRUE]]

\* insertAt whose range check lets index = length through.
insertAt_allowsLength(d, value, index) ==
    IF index < 0 \/ index > d.length THEN [d |-> d, ret |-> Ret("RangeError", Null)]
    ELSE IF index = 0
    THEN [d |-> pushLeft(d, value), ret |-> [Ret("ok", Null) EXCEPT !.flag = TRUE]]
    ELSE LET pastMid == index > (d.length \div 2)
         IN  insertAtLoop(d, value,
                          IF pastMid THEN d.tail ELSE d.head,
                          IF pastMid THEN d.length - 1 ELSE 0,
                          index, pastMid)

\* insertAt whose scan back from tail counts tail as position length.
insertAt_startsPastTail(d, value, index) ==
    IF index < 0 \/ index >= d.length THEN [d |-> d, ret |-> Ret("RangeError", Null)]
    ELSE IF index = 0
    THEN [d |-> pushLeft(d, value), ret |-> [Ret("ok", Null) EXCEPT !.flag = TRUE]]
    ELSE LET pastMid == index > (d.length \div 2)
         IN  insertAtLoop(d, value,
                          IF pastMid THEN d.tail ELSE d.head,
                          IF pastMid THEN d.length ELSE 0,
                          index, pastMid)

\* Deque.prototype.insertAt
insertAt(d, value, index) ==
    IF index < 0 \/ index >= d.length THEN [d |-> d, ret |-> Ret("RangeError", Null)]
    ELSE IF index = 0
    THEN [d |-> pushLeft(d, value), ret |-> [Ret("ok", Null) EXCEPT !.flag = TRUE]]
    ELSE LET pastMid == index > (d.length \div 2)
         IN  insertAtLoop(d, value,
                          IF pastMid THEN d.tail ELSE d.head,
                          IF pastMid THEN d.length - 1 ELSE 0,
                          index, pastMid)

\* Deque.prototype.removeAt: the scan loop and the splice
RECURSIVE removeAtLoop(_, _, _, _, _)
removeAtLoop(d, current, currentIndex, index, pastMid) ==
    IF current = Null THEN [d |-> d, ret |-> Ret("undefined", Null)]
    ELSE IF currentIndex # index
    THEN removeAtLoop(d,
                      IF pastMid THEN d.nodes[current].prev ELSE d.nodes[current].next,
                      currentIndex + (IF pastMid THEN -1 ELSE 1),
                      index, pastMid)
    ELSE LET prev == d.nodes[current].prev
             next == d.nodes[current].next
         IN  IF prev = Null
             THEN [d |-> d, ret |-> Ret("TypeError", Null)]
             ELSE IF next = Null
             THEN [d |-> [d EXCEPT !.nodes[prev].next = next],
                   ret |-> Ret("TypeError", Null)]
             ELSE [d |-> [d EXCEPT !.nodes[prev].next = next,
                                   !.nodes[next].prev = prev,
                                   !.length = d.length - 1],
                   ret |-> Ret("ok", d.nodes[current].val)]

\* removeAt starting its backward scan with currentIndex = length.
removeAt_startsPastTail(d, index) ==
    IF index < 0 \/ index >= d.length THEN [d |-> d, ret |-> Ret("RangeError", Null)]
    ELSE IF index = 0 THEN popleft(d)
    ELSE IF index = d.length - 1 THEN pop(d)
    ELSE LET pastMid == index > (d.length \div 2)
         IN  removeAtLoop(d,
                          IF pastMid THEN d.tail ELSE d.head,
                          IF pastMid THEN d.length ELSE 0,
                          index, pastMid)

\* Deque.prototype.removeAt
removeAt(d, index) ==
    IF index < 0 \/ index >= d.length THEN [d |-> d, ret |-> Ret("RangeError", Null)]
    ELSE IF index = 0 THEN popleft(d)
    ELSE IF index = d.length - 1 THEN pop(d)
    ELSE LET pastMid == index > (d.length \div 2)
         IN  removeAtLoop(d,
                          IF pastMid THEN d.tail ELSE d.head,
                          IF pastMid THEN d.length - 1 ELSE 0,
                          index, pastMid)

\* reverse's loop setting current.next only.
RECURSIVE reverseLoop_keepsPrev(_, _)
reverseLoop_keepsPrev(d, current) ==
    IF current = Null THEN d
    ELSE LET prev == d.nodes[current].prev
             next == d.nodes[current].next
         IN  reverseLoop_keepsPrev([d EXCEPT !.nodes[current].next = prev], next)

\* Deque.prototype.reverse: the loop that swaps each node's links
RECURSIVE reverseLoop(_, _)
reverseLoop(d, current) ==
    IF current = Null THEN d
    ELSE LET prev == d.nodes[current].prev
             next == d.nodes[current].next
         IN  reverseLoop([d EXCEPT !.nodes[current].next = prev,
                                   !.nodes[current].prev = next],
                         next)

\* reverse leaving head and tail where they were.
reverse_keepsEnds(d) == reverseLoop(d, d.head)

\* Deque.prototype.reverse
reverse(d) ==
    LET swapped == [d EXCEPT !.head = d.tail, !.tail = d.head]
    IN  reverseLoop(swapped, swapped.tail)

\* A JavaScript number: an integer or NaN.
Num(n) == [nan |-> FALSE, n |-> n]
NaN == [nan |-> TRUE, n |-> 0]

\* The % operator: the remainder has the sign of the dividend, x % 0 is NaN.
JsRem(a, b) ==
    IF b = 0 THEN NaN
    ELSE IF a >= 0 THEN Num(a % b) ELSE Num(-((-a) % b))

\* Math.abs
Abs(x) == IF x.nan THEN NaN ELSE IF x.n < 0 THEN Num(-x.n) ELSE x

\* The > operator: false when an operand is NaN.
JsGt(x, y) == ~x.nan /\ ~y.nan /\ x.n > y.n

\* The < operator: false when an operand is NaN.
JsLt(x, y) == ~x.nan /\ ~y.nan /\ x.n < y.n

\* optimizeSteps that takes length - steps for the opposite rotation.
optimizeSteps_wrongSign(d, steps) ==
    LET rem == JsRem(steps, d.length)
    IN  IF JsGt(Abs(rem), Num(d.length \div 2))
        THEN IF JsGt(rem, Num(0))
             THEN Num(d.length - rem.n)
             ELSE Num(rem.n + d.length)
        ELSE rem

\* optimizeSteps turning to the other direction from half the length on.
optimizeSteps_flipsAtHalf(d, steps) ==
    LET rem == JsRem(steps, d.length)
    IN  IF ~rem.nan /\ Abs(rem).n >= d.length \div 2
        THEN IF JsGt(rem, Num(0))
             THEN Num(rem.n - d.length)
             ELSE Num(rem.n + d.length)
        ELSE rem

\* Deque.prototype.optimizeSteps
optimizeSteps(d, steps) ==
    LET rem == JsRem(steps, d.length)
    IN  IF JsGt(Abs(rem), Num(d.length \div 2))
        THEN IF JsGt(rem, Num(0))
             THEN Num(rem.n - d.length)
             ELSE Num(rem.n + d.length)
        ELSE rem

\* Deque.prototype.rotate: for (...) this.pushLeft(this.pop())
RECURSIVE rotateRight(_, _, _)
rotateRight(d, i, steps) ==
    IF JsLt(Num(i), steps)
    THEN rotateRight(pushLeft(pop(d).d, pop(d).ret.val), i + 1, steps)
    ELSE d

\* rotate's loop to the left bounded by steps instead of Math.abs(steps).
RECURSIVE rotateLeft_noAbs(_, _, _)
rotateLeft_noAbs(d, i, steps) ==
    IF JsLt(Num(i), steps)
    THEN rotateLeft_noAbs(push(popleft(d).d, popleft(d).ret.val), i + 1, steps)
    ELSE d

\* Deque.prototype.rotate: for (...) this.push(this.popleft())
RECURSIVE rotateLeft(_, _, _)
rotateLeft(d, i, steps) ==
    IF JsLt(Num(i), Abs(steps))
    THEN rotateLeft(push(popleft(d).d, popleft(d).ret.val), i + 1, steps)
    ELSE d

\* rotate without steps = this.optimizeSteps(steps).
rotate_rawSteps(d, steps) ==
    IF steps = 0 THEN d
    ELSE IF steps > 0
    THEN rotateRight(d, 0, Num(steps))
    ELSE rotateLeft(d, 0, Num(steps))

\* Deque.prototype.rotate
rotate(d, steps) ==
    IF steps = 0 THEN d
    ELSE LET opt == optimizeSteps(d, steps)
         IN  IF JsGt(opt, Num(0))
             THEN rotateRight(d, 0, opt)
             ELSE rotateLeft(d, 0, opt)

\* Deque.prototype.rotate: the times a for loop runs its body, one move of an
\* element from one end to the other each time
RECURSIVE rotateMovesLoop(_, _)
rotateMovesLoop(i, bound) ==
    IF JsLt(Num(i), bound) THEN rotateMovesLoop(i + 1, bound) ELSE i

\* Deque.prototype.rotate: the moves rotate(steps) makes
rotateMoves(d, steps) ==
    IF steps = 0 THEN 0
    ELSE LET opt == optimizeSteps(d, steps)
         IN  IF JsGt(opt, Num(0))
             THEN rotateMovesLoop(0, opt)
             ELSE rotateMovesLoop(0, Abs(opt))

\* new Deque() in a heap h that holds other objects
newDeque(h) ==
    LET node == NewNode([nodes |-> h, head |-> Null, tail |-> Null, length |-> 0])
    IN  [nodes |-> [h EXCEPT ![node] = Node(Null)], head |-> node, tail |-> node, length |-> 0]

\* Deque.prototype.copy: the loop over the nodes of this deque, which are in
\* the heap of the new deque c
RECURSIVE copyLoop(_, _)
copyLoop(c, current) ==
    IF current = Null THEN c
    ELSE LET pushed == push(c, c.nodes[current].val)
         IN  copyLoop(pushed, pushed.nodes[current].next)

\* copy handing back a Deque object with the head and tail of this one.
copy_sharesNodes(d) == d

\* Deque.prototype.copy: the new deque, in the heap of this one
copy(d) ==
    IF d.length = 0 THEN newDeque(d.nodes)
    ELSE copyLoop(newDeque(d.nodes), d.head)

\* Deque.prototype.clear
clear(d) ==
    [d EXCEPT !.nodes[d.head].val = Null,
              !.nodes[d.head].next = Null,
              !.tail = d.head,
              !.length = 0]

\* Deque.prototype.toArray: the loop from head along next
RECURSIVE toArrayLoop(_, _, _)
toArrayLoop(d, current, array) ==
    IF current = Null THEN array
    ELSE toArrayLoop(d, d.nodes[current].next, Append(array, d.nodes[current].val))

\* Deque.prototype.toArray
toArray(d) == IF d.length = 0 THEN <<>> ELSE toArrayLoop(d, d.head, <<>>)

\* Inside the iterator's next(), this is the iterator object, which has no
\* _length: this._length is undefined and undefined === 0 is false.
IteratorLengthIsZero == FALSE

\* Deque.prototype[Symbol.iterator]: next() called until it reports done
RECURSIVE iteratorNext(_, _, _)
iteratorNext(d, current, yielded) ==
    IF current = Null \/ IteratorLengthIsZero THEN yielded
    ELSE iteratorNext(d, d.nodes[current].next, Append(yielded, d.nodes[current].val))

\* Deque.prototype[Symbol.iterator]
iterate(d) == iteratorNext(d, d.head, <<>>)

\* function Deque(iterable): for (let element of iterable) this.push(element)
RECURSIVE Deque(_, _, _)
Deque(d, iterable, i) ==
    IF i > Len(iterable) THEN d ELSE Deque(push(d, iterable[i]), iterable, i + 1)

\* The iterables a deque is constructed from.
Iterables == UNION {[1..n -> Values] : n \in 0..MaxInit}

\* The deque the caller holds from copy(): its fields, the nodes being in the
\* heap of the variable nodes. Before any copy() it holds none.
NoCopy == [head |-> Null, tail |-> Null, length |-> 0]

\* The caller between two calls: no call made whose result it still holds.
Idle(d) ==
    [op |-> "idle", value |-> Null, index |-> 0, steps |-> 0,
     ret |-> Ret("ok", Null), pre |-> d]

Init ==
    \E iterable \in Iterables :
        LET d == Reclaim(Deque(EmptyDeque, iterable, 1))
        IN  /\ nodes = d.nodes
            /\ head = d.head
            /\ tail = d.tail
            /\ length = d.length
            /\ last = Idle(d)
            /\ trip = [pair |-> "none", before |-> <<>>, len |-> 0]
            /\ copied = NoCopy

\* The fields of the deque after a call.
Becomes(d) ==
    \E kept \in {Reclaim(d)} :
        /\ nodes' = kept.nodes
        /\ head' = kept.head
        /\ tail' = kept.tail
        /\ length' = kept.length

\* The call just made, its arguments, its result and the deque it was made on.
Called(op, value, index, steps, ret) ==
    last' = [op |-> op, value |-> value, index |-> index, steps |-> steps,
             ret |-> ret, pre |-> Self]

NoTrip == trip' = [pair |-> "none", before |-> <<>>, len |-> 0]

\* The caller is between two calls.
Ready == last.op = "idle"

\* The caller is done with the result of its last call.
Discard ==
    /\ ~Ready
    /\ last' = Idle(Self)
    /\ NoTrip
    /\ UNCHANGED <<nodes, head, tail, length, copied>>

Push ==
    \E value \in Values :
        /\ Ready
        /\ length < MaxLen
        /\ Becomes(push(Self, value))
        /\ UNCHANGED copied
        /\ Called("push", value, 0, 0, Ret("ok", Null))
        /\ NoTrip

PushLeft ==
    \E value \in Values :
        /\ Ready
        /\ length < MaxLen
        /\ Becomes(pushLeft(Self, value))
        /\ UNCHANGED copied
        /\ Called("pushLeft", value, 0, 0, Ret("ok", Null))
        /\ NoTrip

\* Called when the caller is ready, or right after a push(value).
Pop ==
    /\ Ready \/ last.op = "push"
    /\ \E r \in {pop(Self)} :
          /\ Becomes(r.d)
          /\ UNCHANGED copied
          /\ Called("pop", Null, 0, 0, r.ret)
          /\ trip' = IF last.op = "push"
                     THEN [pair |-> "push;pop",
                           before |-> toArray(last.pre), len |-> last.pre.length]
                     ELSE [pair |-> "none", before |-> <<>>, len |-> 0]

\* Called when the caller is ready, or right after a pushLeft(value).
Popleft ==
    /\ Ready \/ last.op = "pushLeft"
    /\ \E r \in {popleft(Self)} :
          /\ Becomes(r.d)
          /\ UNCHANGED copied
          /\ Called("popleft", Null, 0, 0, r.ret)
          /\ trip' = IF last.op = "pushLeft"
                     THEN [pair |-> "pushLeft;popleft",
                           before |-> toArray(last.pre), len |-> last.pre.length]
                     ELSE [pair |-> "none", before |-> <<>>, len |-> 0]

GetHead ==
    /\ Ready
    /\ UNCHANGED copied
    /\ Called("getHead", Null, 0, 0, getHead(Self))
    /\ NoTrip
    /\ UNCHANGED <<nodes, head, tail, length>>

GetTail ==
    /\ Ready
    /\ UNCHANGED copied
    /\ Called("getTail", Null, 0, 0, getTail(Self))
    /\ NoTrip
    /\ UNCHANGED <<nodes, head, tail, length>>

At ==
    \E index \in Indexes :
        /\ Ready
        /\ UNCHANGED copied
        /\ Called("at", Null, index, 0, at(Self, index))
        /\ NoTrip
        /\ UNCHANGED <<nodes, head, tail, length>>

\* Called when the caller is ready, or right after x = removeAt(index) as
\* insertAt(x, index): the round trip.
InsertAt ==
    \E value \in Values, index \in Indexes :
        /\ \/ Ready
           \/ /\ last.op = "removeAt"
              /\ last.ret.status = "ok"
              /\ last.ret.val = value
              /\ last.index = index
        /\ \E r \in {insertAt(Self, value, index)} :
              /\ r.d.length <= MaxLen
              /\ Becomes(r.d)
              /\ UNCHANGED copied
              /\ Called("insertAt", value, index, 0, r.ret)
              /\ trip' = IF last.op = "removeAt"
                         THEN [pair |-> "removeAt;insertAt",
                               before |-> toArray(last.pre), len |-> last.pre.length]
                         ELSE [pair |-> "none", before |-> <<>>, len |-> 0]

RemoveAt ==
    /\ Ready
    /\ \E index \in Indexes :
          \E r \in {removeAt(Self, index)} :
              /\ Becomes(r.d)
              /\ UNCHANGED copied
              /\ Called("removeAt", Null, index, 0, r.ret)
              /\ NoTrip

\* Called when the caller is ready, or right after a reverse(): twice in a row.
Reverse ==
    /\ Ready \/ last.op = "reverse"
    /\ Becomes(reverse(Self))
    /\ UNCHANGED copied
    /\ Called("reverse", Null, 0, 0, Ret("ok", Null))
    /\ trip' = IF last.op = "reverse"
               THEN [pair |-> "reverse;reverse",
                     before |-> toArray(last.pre), len |-> last.pre.length]
               ELSE [pair |-> "none", before |-> <<>>, len |-> 0]

\* Called when the caller is ready, or right after rotate(k) as rotate(-k):
\* the round trip.
Rotate ==
    \E steps \in StepRange :
        /\ Ready \/ (last.op = "rotate" /\ steps = -last.steps)
        /\ Becomes(rotate(Self, steps))
        /\ UNCHANGED copied
        /\ Called("rotate", Null, 0, steps, Ret("ok", Null))
        /\ trip' = IF last.op = "rotate" /\ steps = -last.steps
                   THEN [pair |-> "rotate;rotate",
                         before |-> toArray(last.pre), len |-> last.pre.length]
                   ELSE [pair |-> "none", before |-> <<>>, len |-> 0]

Clear ==
    /\ Ready
    /\ Becomes(clear(Self))
    /\ UNCHANGED copied
    /\ Called("clear", Null, 0, 0, Ret("ok", Null))
    /\ NoTrip

ToArray ==
    /\ Ready
    /\ UNCHANGED copied
    /\ Called("toArray", Null, 0, 0, [Ret("ok", Null) EXCEPT !.arr = toArray(Self)])
    /\ NoTrip
    /\ UNCHANGED <<nodes, head, tail, length>>

Iterate ==
    /\ Ready
    /\ UNCHANGED copied
    /\ Called("iterate", Null, 0, 0, [Ret("ok", Null) EXCEPT !.arr = iterate(Self)])
    /\ NoTrip
    /\ UNCHANGED <<nodes, head, tail, length>>

Next ==
    \/ Push \/ PushLeft \/ Pop \/ Popleft \/ GetHead \/ GetTail
    \/ At \/ InsertAt \/ RemoveAt \/ Reverse \/ Rotate \/ Clear
    \/ ToArray \/ Iterate \/ Discard

Spec == Init /\ [][Next]_vars

\* The nodes from head along next, and from tail along prev.
Forward == NextChain(nodes, head, <<>>)
Backward == PrevChain(nodes, tail, <<>>)

\* A sequence back to front.
Rev(s) == [i \in 1..Len(s) |-> s[Len(s) + 1 - i]]

\* C1: whenever length >= 2, head.prev and tail.next are null, the next links
\* from head visit exactly length distinct nodes and end at tail, and the prev
\* links from tail visit the same nodes in the reverse order and end at head.
C1_ChainOfLengthNodes ==
    length >= 2 =>
        /\ nodes[head].prev = Null
        /\ nodes[tail].next = Null
        /\ Len(Forward) = length
        /\ Forward[length] = tail
        /\ nodes[Forward[length]].next = Null
        /\ Backward = Rev(Forward)
        /\ Backward[length] = head
        /\ nodes[Backward[length]].prev = Null

\* C1 witness: an insertAt spliced a node into the interior of a chain.
C1_Witness ==
    /\ last.op = "insertAt"
    /\ last.ret.flag
    /\ last.index >= 1
    /\ length >= 3

\* C2: head and tail are never null, and an empty deque has head = tail on a
\* node whose value is null, which is what getHead() and getTail() return.
C2_EmptyKeepsSentinel ==
    /\ head # Null
    /\ tail # Null
    /\ length = 0 =>
        /\ head = tail
        /\ nodes[head].val = Null
        /\ getHead(Self) = Ret("ok", Null)
        /\ getTail(Self) = Ret("ok", Null)

\* C2 witness: pop emptied a deque of one element.
C2_Witness ==
    /\ last.op = "pop"
    /\ last.pre.length = 1
    /\ last.ret.val # Null
    /\ length = 0

\* C3: a deque of one element has head = tail on a node without links.
C3_SingletonHasNoLinks ==
    length = 1 =>
        /\ head = tail
        /\ nodes[head].prev = Null
        /\ nodes[head].next = Null

\* C3 witness: popleft shrank a deque of two elements to one.
C3_Witness ==
    /\ last.op = "popleft"
    /\ last.pre.length = 2
    /\ length = 1

\* C4: at, insertAt and removeAt called with index < 0 or index >= length raise
\* a RangeError and leave head, tail, length, every link and every element as
\* they were.
C4_OutOfRangeThrowsAndKeeps ==
    (/\ last.op \in {"at", "insertAt", "removeAt"}
     /\ (last.index < 0 \/ last.index >= last.pre.length)) =>
        /\ last.ret.status = "RangeError"
        /\ Self = last.pre
        /\ toArray(Self) = toArray(last.pre)

\* C4 witness: insertAt was called with index = length on a deque with elements.
C4_Witness ==
    /\ last.op = "insertAt"
    /\ last.pre.length >= 1
    /\ last.index = last.pre.length
    /\ last.ret.status = "RangeError"

\* C5 as stated: x = removeAt(index) then insertAt(x, index) completes without
\* error and restores the element sequence and the length, for every index in
\* range.
C5_RoundTripEveryIndex ==
    trip.pair = "removeAt;insertAt" =>
        /\ last.ret.status = "ok"
        /\ last.ret.flag
        /\ toArray(Self) = trip.before
        /\ length = trip.len

\* C5 amended: the round trip restores the element sequence and the length for
\* every index but the last one; for index = length - 1 the insertAt raises a
\* RangeError and the deque stays one element short.
C5_RoundTripButLast ==
    trip.pair = "removeAt;insertAt" =>
        IF last.index < trip.len - 1
        THEN /\ last.ret.status = "ok"
             /\ last.ret.flag
             /\ toArray(Self) = trip.before
             /\ length = trip.len
        ELSE /\ last.ret.status = "RangeError"
             /\ length = trip.len - 1
             /\ toArray(Self) = SubSeq(trip.before, 1, trip.len - 1)

\* C5 witness: an interior element was removed and inserted back.
C5_Witness ==
    /\ trip.pair = "removeAt;insertAt"
    /\ last.index >= 1
    /\ last.index < trip.len - 1
    /\ last.ret.flag

\* C6: a fresh iterator yields exactly the length live elements, in the order
\* of toArray(), and on an empty deque it yields nothing.
C6_IteratorYieldsLiveElements ==
    last.op = "iterate" =>
        /\ last.ret.arr = toArray(Self)
        /\ Len(last.ret.arr) = length

\* C7: after insertAt(v, index) with 0 <= index < length, which returns true,
\* at(index) is v, the elements before index keep their positions, those from
\* index on move one position back, and length has grown by one.
C7_InsertAtShiftsBack ==
    (/\ last.op = "insertAt"
     /\ last.index >= 0
     /\ last.index < last.pre.length) =>
        LET s == toArray(last.pre)
            i == last.index
        IN  /\ last.ret.status = "ok"
            /\ last.ret.flag
            /\ length = last.pre.length + 1
            /\ at(Self, i) = Ret("ok", last.value)
            /\ at(Self, i + 1) = Ret("ok", s[i + 1])
            /\ \A j \in 0..(i - 1) : at(Self, j) = Ret("ok", s[j + 1])
            /\ \A j \in i..(last.pre.length - 1) : at(Self, j + 1) = Ret("ok", s[j + 1])
            /\ toArray(Self) = SubSeq(s, 1, i) \o <<last.value>> \o SubSeq(s, i + 1, Len(s))

\* C7 witness: an insertAt that found its place by the scan back from tail.
C7_Witness ==
    /\ last.op = "insertAt"
    /\ last.ret.flag
    /\ last.index > last.pre.length \div 2
    /\ \E j \in 1..last.pre.length : toArray(last.pre)[j] # last.value

\* C8: rotate(steps) on a deque of n >= 1 elements moves the element at
\* position i to position (i + steps) mod n and keeps the length.
C8_RotateMovesBySteps ==
    (last.op = "rotate" /\ last.pre.length >= 1) =>
        LET s == toArray(last.pre)
            n == last.pre.length
        IN  /\ length = n
            /\ Len(toArray(Self)) = n
            /\ \A i \in 0..(n - 1) : toArray(Self)[((i + last.steps) % n) + 1] = s[i + 1]

\* C8 witness: a rotation by more steps than there are elements changed the order.
C8_Witness ==
    /\ last.op = "rotate"
    /\ last.pre.length >= 3
    /\ (last.steps > last.pre.length \/ last.steps < -last.pre.length)
    /\ toArray(Self) # toArray(last.pre)

\* C9: rotate(k) then rotate(-k) restores the element sequence and the length,
\* on every deque, the empty one and the singleton included.
C9_RotateThenBack ==
    trip.pair = "rotate;rotate" =>
        /\ toArray(Self) = trip.before
        /\ length = trip.len

\* C9 witness: rotate(k) changed the order and rotate(-k) has run after it.
C9_Witness ==
    /\ trip.pair = "rotate;rotate"
    /\ last.steps # 0
    /\ length >= 3
    /\ toArray(last.pre) # trip.before

\* C10: reverse() leaves the elements in the reverse order with the same
\* length and a chain linked both ways between the new head and the new tail;
\* on a deque of length 0 or 1 it changes nothing.
C10_ReverseReverses ==
    last.op = "reverse" =>
        /\ length = last.pre.length
        /\ toArray(Self) = Rev(toArray(last.pre))
        /\ length >= 1 => [i \in 1..Len(Forward) |-> nodes[Forward[i]].val] = Rev(toArray(last.pre))
        /\ nodes[head].prev = Null
        /\ nodes[tail].next = Null
        /\ Backward = Rev(Forward)
        /\ Len(Forward) = IF length = 0 THEN 1 ELSE length
        /\ last.pre.length <= 1 => Self = last.pre

\* C10 witness: a reverse of three or more elements that changed their order.
C10_Witness ==
    /\ last.op = "reverse"
    /\ length >= 3
    /\ toArray(Self) # toArray(last.pre)

\* C11: reverse() twice in a row leaves the element sequence and the length
\* as they were, and head and tail on the nodes they were on, every node with
\* the links it had. (Every reachable deque is the deque of a state in which
\* the caller is ready.)
C11_ReverseTwiceRestores ==
    /\ Ready =>
        LET twice == reverse(reverse(Self))
        IN  /\ twice.head = head
            /\ twice.tail = tail
            /\ twice = Self
    /\ trip.pair = "reverse;reverse" =>
        /\ toArray(Self) = trip.before
        /\ length = trip.len

\* C11 witness: two reverse() calls in a row on three or more elements, the
\* first of which changed the order.
C11_Witness ==
    /\ trip.pair = "reverse;reverse"
    /\ length >= 3
    /\ toArray(last.pre) # trip.before

\* C12: removeAt(index) with 0 <= index < length returns the element that was
\* at position index and leaves the sequence with that position deleted, one
\* element shorter and linked both ways: at the first, at the last and at an
\* interior position, scanned from head or from tail.
C12_RemoveAtDeletesPosition ==
    (/\ last.op = "removeAt"
     /\ last.index >= 0
     /\ last.index < last.pre.length) =>
        LET s == toArray(last.pre)
            i == last.index
        IN  /\ last.ret = Ret("ok", s[i + 1])
            /\ toArray(Self) = SubSeq(s, 1, i) \o SubSeq(s, i + 2, Len(s))
            /\ length = last.pre.length - 1
            /\ Backward = Rev(Forward)

\* C12 witness: an interior element past the middle, which differs from the
\* element before it, was removed by the scan from tail.
C12_Witness ==
    /\ last.op = "removeAt"
    /\ last.ret.status = "ok"
    /\ last.index > last.pre.length \div 2
    /\ last.index < last.pre.length - 1
    /\ toArray(last.pre)[last.index + 1] # toArray(last.pre)[last.index]

\* A caller that makes a new deque with no argument and then only calls push
\* and pushLeft. It keeps count of its calls in trip.len and builds in
\* trip.before the sequence its values make: each pushed value appended at the
\* right end, each pushLeft value put in front at the left end.
InitPushes ==
    LET d == Reclaim(Deque(EmptyDeque, <<>>, 1))
    IN  /\ nodes = d.nodes
        /\ head = d.head
        /\ tail = d.tail
        /\ length = d.length
        /\ last = Idle(d)
        /\ trip = [pair |-> "pushes", before |-> <<>>, len |-> 0]
        /\ copied = NoCopy

PushNext ==
    \E value \in Values :
        /\ length < MaxLen
        /\ Becomes(push(Self, value))
        /\ UNCHANGED copied
        /\ Called("push", value, 0, 0, Ret("ok", Null))
        /\ trip' = [trip EXCEPT !.before = Append(trip.before, value), !.len = trip.len + 1]

PushLeftNext ==
    \E value \in Values :
        /\ length < MaxLen
        /\ Becomes(pushLeft(Self, value))
        /\ UNCHANGED copied
        /\ Called("pushLeft", value, 0, 0, Ret("ok", Null))
        /\ trip' = [trip EXCEPT !.before = <<value>> \o trip.before, !.len = trip.len + 1]

NextPushes == PushNext \/ PushLeftNext

SpecPushes == InitPushes /\ [][NextPushes]_vars

\* C13: from a new empty deque, after any sequence of push and pushLeft calls,
\* length is the number of calls made and toArray() is the sequence with each
\* pushed value appended at the right and each pushLeft value put in front.
C13_PushesBuildSequence ==
    /\ length = trip.len
    /\ toArray(Self) = trip.before
    /\ Len(toArray(Self)) = trip.len

\* C13 witness: a pushLeft of a value that differs from the first element,
\* after two calls or more, one of them a push of yet another value.
C13_Witness ==
    /\ trip.pair = "pushes"
    /\ last.op = "pushLeft"
    /\ trip.len >= 3
    /\ trip.before[1] # trip.before[2]
    /\ trip.before[Len(trip.before)] # trip.before[2]

\* C14: push(v) immediately followed by pop() returns v and restores the
\* length and the element sequence of before the push, on every reachable
\* deque, the empty one included; likewise pushLeft(v) immediately followed by
\* popleft().
C14_PushThenPopRestores ==
    [][/\ (last.op = "push" /\ last'.op = "pop") =>
            /\ last'.ret = Ret("ok", last.value)
            /\ toArray([nodes |-> nodes', head |-> head', tail |-> tail', length |-> length'])
                   = toArray(last.pre)
            /\ length' = last.pre.length
       /\ (last.op = "pushLeft" /\ last'.op = "popleft") =>
            /\ last'.ret = Ret("ok", last.value)
            /\ toArray([nodes |-> nodes', head |-> head', tail |-> tail', length |-> length'])
                   = toArray(last.pre)
            /\ length' = last.pre.length]_vars

\* C14 witness: pop() right after the push of a value that differs from the
\* last element of the two or more there were.
C14_Witness ==
    /\ trip.pair = "push;pop"
    /\ trip.len >= 2
    /\ last.ret.val # trip.before[trip.len]
    /\ length = trip.len

\* C15: on a deque with length 0, pop() and popleft() return null, raise no
\* error and leave head, tail, length (still 0) and the sentinel node's value
\* and links as they were.
C15_PopOnEmptyIsNoOp ==
    (/\ last.op \in {"pop", "popleft"}
     /\ last.pre.length = 0) =>
        /\ last.ret = Ret("ok", Null)
        /\ Self = last.pre
        /\ length = 0
        /\ head = tail
        /\ nodes[head] = Node(Null)

\* C15 witness: popleft() was called on an empty deque.
C15_Witness ==
    /\ last.op = "popleft"
    /\ last.pre.length = 0
    /\ trip.pair = "none"

\* C18: at(index) with 0 <= index < length returns the element at position
\* index of the sequence from head, the value the forward scan from head
\* returns; it scans backward from tail, following length - 1 - index prev
\* links, exactly when index > floor(length / 2), and forward from head,
\* following index next links, otherwise; it follows at most floor(length / 2)
\* links and changes nothing in the deque.
C18_AtScansFromNearerEnd ==
    (/\ last.op = "at"
     /\ last.index >= 0
     /\ last.index < last.pre.length) =>
        LET n == last.pre.length
            i == last.index
        IN  /\ last.ret = Ret("ok", toArray(last.pre)[i + 1])
            /\ last.ret = atForward(last.pre, i)
            /\ atLinks(last.pre, i) = IF i > n \div 2 THEN n - 1 - i ELSE i
            /\ atLinks(last.pre, i) <= n \div 2
            /\ Self = last.pre

\* C18 witness: at(index) reached an element through a prev link from tail,
\* an element that differs from the one after it.
C18_Witness ==
    /\ last.op = "at"
    /\ last.ret.status = "ok"
    /\ last.index > last.pre.length \div 2
    /\ last.index < last.pre.length - 1
    /\ atLinks(last.pre, last.index) >= 1
    /\ last.ret.val # toArray(last.pre)[last.index + 2]

\* C19: on a deque of n >= 1 elements, optimizeSteps(steps) is a number
\* congruent to steps modulo n, of magnitude floor(n / 2) at most, and
\* rotate(steps) makes floor(n / 2) moves at most.
C19_OptimizeStepsBounds ==
    (/\ last.op = "rotate"
     /\ last.pre.length >= 1) =>
        LET n == last.pre.length
            opt == optimizeSteps(last.pre, last.steps)
        IN  /\ ~opt.nan
            /\ (opt.n - last.steps) % n = 0
            /\ opt.n <= n \div 2
            /\ -opt.n <= n \div 2
            /\ rotateMoves(last.pre, last.steps) <= n \div 2
            /\ last.steps # 0 => rotateMoves(last.pre, last.steps) = Abs(opt).n

\* C19 witness: rotate(steps) was called with more steps than the odd number
\* of elements, which it brought down to floor(n / 2) moves the other way.
C19_Witness ==
    /\ last.op = "rotate"
    /\ last.pre.length >= 3
    /\ last.pre.length % 2 = 1
    /\ last.steps > last.pre.length
    /\ optimizeSteps(last.pre, last.steps).n = -(last.pre.length \div 2)
    /\ rotateMoves(last.pre, last.steps) = last.pre.length \div 2

\* C20: on a deque with length 0, rotate(steps) with any steps, zero or not,
\* raises no error, makes no move and leaves the deque empty: head = tail on
\* the node with null value and null links, length 0.
C20_RotateEmptyIsNoOp ==
    (/\ last.op = "rotate"
     /\ last.pre.length = 0) =>
        /\ last.ret = Ret("ok", Null)
        /\ rotateMoves(last.pre, last.steps) = 0
        /\ Self = last.pre
        /\ length = 0
        /\ head = tail
        /\ nodes[head] = Node(Null)
        /\ toArray(Self) = <<>>

\* C20 witness: rotate(steps) was called on an empty deque with steps that
\* are not zero, for which optimizeSteps returns NaN.
C20_Witness ==
    /\ last.op = "rotate"
    /\ last.pre.length = 0
    /\ last.steps # 0
    /\ optimizeSteps(last.pre, last.steps).nan

\* A caller that holds a deque and the deque it got from copy(), and calls the
\* methods that change a deque on the one or on the other. The two Deque
\* objects have their nodes in the one heap of the variable nodes.

\* The calls that change a deque.
Mutations ==
    {[op |-> o, value |-> v, index |-> 0, steps |-> 0] :
        o \in {"push", "pushLeft"}, v \in Values}
    \cup {[op |-> o, value |-> Null, index |-> 0, steps |-> 0] :
        o \in {"pop", "popleft", "reverse", "clear"}}
    \cup {[op |-> "insertAt", value |-> v, index |-> i, steps |-> 0] :
        v \in Values, i \in 0..(MaxCopyLen - 1)}
    \cup {[op |-> "removeAt", value |-> Null, index |-> i, steps |-> 0] :
        i \in 0..(MaxCopyLen - 1)}
    \cup {[op |-> "rotate", value |-> Null, index |-> 0, steps |-> k] : k \in {-1, 1}}

\* The call m made on the deque d.
Apply(d, m) ==
    CASE m.op = "push" -> [d |-> push(d, m.value), ret |-> Ret("ok", Null)]
      [] m.op = "pushLeft" -> [d |-> pushLeft(d, m.value), ret |-> Ret("ok", Null)]
      [] m.op = "pop" -> pop(d)
      [] m.op = "popleft" -> popleft(d)
      [] m.op = "insertAt" -> insertAt(d, m.value, m.index)
      [] m.op = "removeAt" -> removeAt(d, m.index)
      [] m.op = "reverse" -> [d |-> reverse(d), ret |-> Ret("ok", Null)]
      [] m.op = "rotate" -> [d |-> rotate(d, m.steps), ret |-> Ret("ok", Null)]
      [] m.op = "clear" -> [d |-> clear(d), ret |-> Ret("ok", Null)]

\* The fields of the two deques after a call: d this deque, c the copy held.
BecomesBoth(d, c) ==
    \E kept \in {Both(d, c)} :
        /\ nodes' = kept.nodes
        /\ head' = kept.first.head
        /\ tail' = kept.first.tail
        /\ length' = kept.first.length
        /\ copied' = kept.second

\* c = d.copy(): a copy held before is let go.
Copy ==
    /\ Ready
    /\ \E away \in {Both(Held(nodes, NoCopy), Self)} :
          \E c \in {copy(Held(away.nodes, away.second))} :
              BecomesBoth(Held(c.nodes, away.second), c)
    /\ Called("copy", Null, 0, 0, Ret("ok", Null))
    /\ trip' = [pair |-> "copy", before |-> toArray(Self), len |-> length]

\* A call that changes a deque, made on this deque.
MutateOriginal ==
    /\ Ready
    /\ \E m \in Mutations :
          \E r \in {Apply(Self, m)} :
              /\ r.d.length <= MaxCopyLen
              /\ BecomesBoth(r.d, Held(r.d.nodes, copied))
              /\ Called(m.op, m.value, m.index, m.steps, r.ret)
    /\ trip' = [pair |-> "on original", before |-> toArray(Held(nodes, copied)),
                len |-> copied.length]

\* A call that changes a deque, made on the copy held.
MutateCopy ==
    /\ Ready
    /\ copied # NoCopy
    /\ \E turned \in {Both(Held(nodes, copied), Self)} :
          \E m \in Mutations :
              \E r \in {Apply(Held(turned.nodes, turned.first), m)} :
                  /\ r.d.length <= MaxCopyLen
                  /\ BecomesBoth(Held(r.d.nodes, turned.second), r.d)
                  /\ Called(m.op, m.value, m.index, m.steps, r.ret)
    /\ trip' = [pair |-> "on copy", before |-> toArray(Held(nodes, copied)),
                len |-> copied.length]

NextCopy == Copy \/ MutateOriginal \/ MutateCopy \/ Discard

SpecCopy == Init /\ [][NextCopy]_vars

\* A deque as its holder can see it: its fields and its live nodes, each with
\* its value and links, in the order of the chain.
Seen(d) ==
    LET live == Live(d)
    IN  [head |-> d.head, tail |-> d.tail, length |-> d.length,
         cells |-> [i \in 1..Len(live) |-> d.nodes[live[i]]]]

\* The nodes that are nodes of both deques.
Shared ==
    LET mine == Live(Self)
        theirs == Live(Held(nodes, copied))
    IN  {mine[i] : i \in 1..Len(mine)} \cap {theirs[i] : i \in 1..Len(theirs)}

\* C16: c = d.copy() has the length and the toArray() of d, which it leaves as
\* it was, and no node of c is a node of d; after that a call that changes c
\* leaves d with its element sequence, length and links, and a call that
\* changes d leaves c with its own. (last.pre is this deque and the heap
\* before the call.)
C16_CopyIsIndependent ==
    /\ Shared = {}
    /\ trip.pair = "copy" =>
        /\ copied.length = length
        /\ toArray(Held(nodes, copied)) = toArray(Self)
        /\ toArray(Held(nodes, copied)) = trip.before
        /\ Len(Seen(Held(nodes, copied)).cells) = IF length = 0 THEN 1 ELSE length
        /\ Seen(Self) = Seen(last.pre)
    /\ trip.pair = "on copy" =>
        /\ Seen(Self) = Seen(last.pre)
        /\ toArray(Self) = toArray(last.pre)
    /\ trip.pair = "on original" =>
        /\ Seen(Held(nodes, copied)) = Seen(Held(last.pre.nodes, copied))
        /\ toArray(Held(nodes, copied)) = toArray(Held(last.pre.nodes, copied))

\* C16 witness: a call changed the copy of a deque of two elements or more,
\* which before the call had the elements of the deque and now has others.
C16_Witness ==
    /\ trip.pair = "on copy"
    /\ length >= 2
    /\ trip.before = toArray(Self)
    /\ toArray(Held(nodes, copied)) # toArray(Self)

(***************************************************************************)
(* The permissive variant of lines 411-657: append and prepend for push    *)
(* and pushLeft, scans from head only, null or false for an index out of   *)
(* range, and the searches contains and find.                              *)
(***************************************************************************)

\* Deque.prototype.append
append(d, value) ==
    IF d.length = 0
    THEN [d EXCEPT !.nodes[d.tail].val = value, !.length = d.length + 1]
    ELSE LET newNode == NewNode(d)
         IN  [d EXCEPT !.nodes[newNode] = [val |-> value, prev |-> d.tail, next |-> Null],
                       !.nodes[d.tail].next = newNode,
                       !.tail = newNode,
                       !.length = d.length + 1]

\* Deque.prototype.prepend
prepend(d, value) ==
    IF d.length = 0
    THEN [d EXCEPT !.nodes[d.head].val = value, !.length = d.length + 1]
    ELSE LET newNode == NewNode(d)
         IN  [d EXCEPT !.nodes[newNode] = [val |-> value, prev |-> Null, next |-> d.head],
                       !.nodes[d.head].prev = newNode,
                       !.head = newNode,
                       !.length = d.length + 1]

\* Deque.prototype.pop of the permissive variant
permissivePop(d) ==
    IF d.length = 0 THEN [d |-> d, ret |-> Ret("ok", Null)]
    ELSE IF d.length = 1
    THEN [d |-> [d EXCEPT !.nodes[d.head].val = Null, !.length = d.length - 1],
          ret |-> Ret("ok", d.nodes[d.head].val)]
    ELSE LET lastElement == d.tail
             newTail == d.nodes[d.tail].prev
         IN  [d |-> [d EXCEPT !.tail = newTail,
                              !.nodes[newTail].next = Null,
                              !.length = d.length - 1],
              ret |-> Ret("ok", d.nodes[lastElement].val)]

\* Deque.prototype.popleft of the permissive variant
permissivePopleft(d) ==
    IF d.length = 0 THEN [d |-> d, ret |-> Ret("ok", Null)]
    ELSE IF d.length = 1
    THEN [d |-> [d EXCEPT !.nodes[d.head].val = Null, !.length = d.length - 1],
          ret |-> Ret("ok", d.nodes[d.head].val)]
    ELSE LET firstElement == d.head
             newHead == d.nodes[d.head].next
         IN  [d |-> [d EXCEPT !.head = newHead,
                              !.nodes[newHead].prev = Null,
                              !.length = d.length - 1],
              ret |-> Ret("ok", d.nodes[firstElement].val)]

\* Deque.prototype.contains: the scan loop
RECURSIVE containsLoop(_, _, _)
containsLoop(d, current, value) ==
    IF current = Null THEN [Ret("ok", Null) EXCEPT !.flag = FALSE]
    ELSE IF d.nodes[current].val = value THEN [Ret("ok", Null) EXCEPT !.flag = TRUE]
    ELSE containsLoop(d, d.nodes[current].next, value)

\* contains without the test for length 0.
contains_noEmptyGuard(d, value) == containsLoop(d, d.head, value)

\* Deque.prototype.contains
contains(d, value) ==
    IF d.length = 0 THEN [Ret("ok", Null) EXCEPT !.flag = FALSE]
    ELSE containsLoop(d, d.head, value)

\* Deque.prototype.find: the scan loop
RECURSIVE findLoop(_, _, _, _)
findLoop(d, current, index, value) ==
    IF current = Null THEN Ret("null", Null)
    ELSE IF d.nodes[current].val = value THEN Ret("ok", index)
    ELSE findLoop(d, d.nodes[current].next, index + 1, value)

\* Deque.prototype.find: an index, or null
find(d, value) ==
    IF d.length = 0 THEN Ret("null", Null)
    ELSE findLoop(d, d.head, 0, value)

\* Deque.prototype.insertAt of the permissive variant: the scan loop and the
\* splice
RECURSIVE permissiveInsertAtLoop(_, _, _, _, _)
permissiveInsertAtLoop(d, value, current, currentIndex, index) ==
    IF current = Null THEN [d |-> d, ret |-> Ret("undefined", Null)]
    ELSE IF currentIndex # index
    THEN permissiveInsertAtLoop(d, value, d.nodes[current].next, currentIndex + 1, index)
    ELSE LET prev == d.nodes[current].prev
             newNode == NewNode(d)
         IN  IF prev = Null
             THEN [d |-> d, ret |-> Ret("TypeError", Null)]
             ELSE [d |-> [d EXCEPT !.nodes[newNode] =
                                       [val |-> value, prev |-> prev, next |-> current],
                                   !.nodes[prev].next = newNode,
                                   !.nodes[current].prev = newNode,
                                   !.length = d.length + 1],
                   ret |-> [Ret("ok", Null) EXCEPT !.flag = TRUE]]

\* Deque.prototype.insertAt of the permissive variant
permissiveInsertAt(d, value, index) ==
    IF index < 0 \/ index >= d.length
    THEN [d |-> d, ret |-> [Ret("ok", Null) EXCEPT !.flag = FALSE]]
    ELSE IF index = 0
    THEN [d |-> prepend(d, value), ret |-> [Ret("ok", Null) EXCEPT !.flag = TRUE]]
    ELSE permissiveInsertAtLoop(d, value, d.head, 0, index)

\* Deque.prototype.removeAt of the permissive variant: the scan loop and the
\* splice
RECURSIVE permissiveRemoveAtLoop(_, _, _, _)
permissiveRemoveAtLoop(d, current, currentIndex, index) ==
    IF current = Null THEN [d |-> d, ret |-> Ret("undefined", Null)]
    ELSE IF currentIndex # index
    THEN permissiveRemoveAtLoop(d, d.nodes[current].next, currentIndex + 1, index)
    ELSE LET prev == d.nodes[current].prev
             next == d.nodes[current].next
         IN  IF prev = Null
             THEN [d |-> d, ret |-> Ret("TypeError", Null)]
             ELSE IF next = Null
             THEN [d |-> [d EXCEPT !.nodes[prev].next = next],
                   ret |-> Ret("TypeError", Null)]
             ELSE [d |-> [d EXCEPT !.nodes[prev].next = next,
                                   !.nodes[next].prev = prev,
                                   !.length = d.length - 1],
                   ret |-> Ret("ok", d.nodes[current].val)]

\* Deque.prototype.removeAt of the permissive variant
permissiveRemoveAt(d, index) ==
    IF index < 0 \/ index >= d.length THEN [d |-> d, ret |-> Ret("null", Null)]
    ELSE IF index = 0 THEN permissivePopleft(d)
    ELSE IF index = d.length - 1 THEN permissivePop(d)
    ELSE permissiveRemoveAtLoop(d, d.head, 0, index)

\* function Deque(array): for (let element of array) this.append(element)
RECURSIVE PermissiveDeque(_, _, _)
PermissiveDeque(d, array, i) ==
    IF i > Len(array) THEN d ELSE PermissiveDeque(append(d, array[i]), array, i + 1)

InitPermissive ==
    \E array \in Iterables :
        LET d == Reclaim(PermissiveDeque(EmptyDeque, array, 1))
        IN  /\ nodes = d.nodes
            /\ head = d.head
            /\ tail = d.tail
            /\ length = d.length
            /\ last = Idle(d)
            /\ trip = [pair |-> "none", before |-> <<>>, len |-> 0]
            /\ copied = NoCopy

PermissiveAppend ==
    \E value \in Values :
        /\ Ready
        /\ length < MaxLen
        /\ Becomes(append(Self, value))
        /\ UNCHANGED copied
        /\ Called("append", value, 0, 0, Ret("ok", Null))
        /\ NoTrip

PermissivePrepend ==
    \E value \in Values :
        /\ Ready
        /\ length < MaxLen
        /\ Becomes(prepend(Self, value))
        /\ UNCHANGED copied
        /\ Called("prepend", value, 0, 0, Ret("ok", Null))
        /\ NoTrip

PermissivePop ==
    /\ Ready
    /\ \E r \in {permissivePop(Self)} :
          /\ Becomes(r.d)
          /\ UNCHANGED copied
          /\ Called("pop", Null, 0, 0, r.ret)
          /\ NoTrip

PermissivePopleft ==
    /\ Ready
    /\ \E r \in {permissivePopleft(Self)} :
          /\ Becomes(r.d)
          /\ UNCHANGED copied
          /\ Called("popleft", Null, 0, 0, r.ret)
          /\ NoTrip

PermissiveAt ==
    /\ Ready
    /\ \E index \in Indexes :
          /\ UNCHANGED copied
          /\ Called("at", Null, index, 0, atForward(Self, index))
    /\ NoTrip
    /\ UNCHANGED <<nodes, head, tail, length>>

PermissiveInsertAt ==
    /\ Ready
    /\ \E value \in Values, index \in Indexes :
          \E r \in {permissiveInsertAt(Self, value, index)} :
              /\ r.d.length <= MaxLen
              /\ Becomes(r.d)
              /\ UNCHANGED copied
              /\ Called("insertAt", value, index, 0, r.ret)
              /\ NoTrip

PermissiveRemoveAt ==
    /\ Ready
    /\ \E index \in Indexes :
          \E r \in {permissiveRemoveAt(Self, index)} :
              /\ Becomes(r.d)
              /\ UNCHANGED copied
              /\ Called("removeAt", Null, index, 0, r.ret)
              /\ NoTrip

Contains ==
    /\ Ready
    /\ \E value \in Values :
          /\ UNCHANGED copied
          /\ Called("contains", value, 0, 0, contains(Self, value))
    /\ NoTrip
    /\ UNCHANGED <<nodes, head, tail, length>>

Find ==
    /\ Ready
    /\ \E value \in Values :
          /\ UNCHANGED copied
          /\ Called("find", value, 0, 0, find(Self, value))
    /\ NoTrip
    /\ UNCHANGED <<nodes, head, tail, length>>

NextPermissive ==
    \/ PermissiveAppend \/ PermissivePrepend \/ PermissivePop \/ PermissivePopleft \/ PermissiveAt
    \/ PermissiveInsertAt \/ PermissiveRemoveAt \/ Contains \/ Find \/ Discard

SpecPermissive == InitPermissive /\ [][NextPermissive]_vars

\* The live elements of a deque: the values of its first length nodes from
\* head.
Elements(d) ==
    LET chain == NextChain(d.nodes, d.head, <<>>)
    IN  [i \in 1..d.length |-> d.nodes[chain[i]].val]

\* C17: in the permissive variant find(v) returns the smallest zero-based
\* index of a live element equal to v, or null when there is none;
\* contains(v) is true exactly when find(v) is not null; on an empty deque
\* contains(null) is false and find(null) is null.
C17_FindFirstAndContains ==
    LET s == Elements(last.pre)
        v == last.value
        at_v == {i \in 1..Len(s) : s[i] = v}
    IN  /\ last.op = "find" =>
            /\ last.ret = IF at_v = {}
                          THEN Ret("null", Null)
                          ELSE Ret("ok", (CHOOSE i \in at_v : \A j \in at_v : i <= j) - 1)
            /\ Self = last.pre
        /\ last.op = "contains" =>
            /\ last.ret.flag = (at_v # {})
            /\ last.ret.flag = (find(last.pre, v).status # "null")
            /\ Self = last.pre
        /\ \A value \in Values :
               contains(Self, value).flag = (find(Self, value).status # "null")
        /\ length = 0 =>
            /\ ~contains(Self, Null).flag
            /\ find(Self, Null) = Ret("null", Null)
        /\ Len(NextChain(nodes, head, <<>>)) = IF length = 0 THEN 1 ELSE length

\* C17 witness: find(v) returned an index past the first element of a deque
\* that has v a second time further on.
C17_Witness ==
    /\ last.op = "find"
    /\ last.ret.status = "ok"
    /\ last.ret.val >= 1
    /\ \E j \in (last.ret.val + 2)..length : Elements(Self)[j] = last.value
====
